---- MODULE Spec2Model ----
(***************************************************************************)
(* Steam Scout: the history store, the trend computation and the watchlist *)
(* selection of the two script variants of the repository.                 *)
(*                                                                         *)
(*   v2.0   src/steam_scout.py              History worksheet, 3-day trend *)
(*   v1.8.3 src/steam-scout/steam_scout.py  CSV log, 7-day trend,          *)
(*                                          build_watchlist                *)
(*                                                                         *)
(* Time is counted in whole days.  A worksheet row is a record; its kind   *)
(* says what its cells hold: "header" the four canonical column names,     *)
(* "legacy" cells of another layout (no "timestamp_utc" among them, no ISO *)
(* timestamp), "data" an ISO timestamp, an appid and a player count.       *)
(* A third layout has a "timestamp_utc" column first but no "appid" column *)
(* (say timestamp_utc, game, players): its header is of kind "foreign" and *)
(* its rows, of kind "old", begin with an ISO timestamp.                   *)
(* A percentage of v2.0 is the exact fraction <<numerator, denominator>>;  *)
(* a percentage of v1.8.3, which the code rounds to two decimals, is an    *)
(* integer number of hundredths.                                           *)
(*                                                                         *)
(* Two specifications.  Spec takes serialized runs, one step per run;      *)
(* SpecCalls, further down, takes two runs one storage call at a time.     *)
(*                                                                         *)
(* In Spec one step is one run of main from the history step to the push   *)
(* of the tabs: error is the exception that ended the run, if any, and     *)
(* pushed the tabs it pushed; runs is used by SpecCalls only.              *)
(* The three clock readings of a v2.0 run (row stamp, trim cutoff, trend   *)
(* cutoff) fall on the same day; between runs the clock may step back by   *)
(* at most MaxSkew.  watch_rows holds the watchlist of the run for each    *)
(* setting of the command-line thresholds.  The batch of a run has one row *)
(* per appid, as the pool the scripts build has.                           *)
(***************************************************************************)
EXTENDS Integers, Sequences, FiniteSets, TLC

VARIABLES variant, sheet, pre_trim, log, today_rows, now, trend_rows, watch_rows,
          error, pushed, runs

vars == <<variant, sheet, pre_trim, log, today_rows, now, trend_rows, watch_rows,
          error, pushed, runs>>

(***************************************************************************)
(* Bounds of the model and constants of the program.                       *)
(***************************************************************************)
MaxRows == 2

MaxBatch == 2

MaxLog == 4

MaxSkew == 1

MaxDrift == 1

RETENTION_DAYS == 8

WINDOW_3D == 3

WINDOW_7D == 7

Times == {0, 1, 6, 9}

AppIds == {1, 2}

CcuInts == {-1, 0, 1, 2}

MinCcus == {1, 2}

MinPcts == {0, 25}

(***************************************************************************)
(* Values.                                                                 *)
(***************************************************************************)
None == [some |-> FALSE, v |-> 0]

Some(x) == [some |-> TRUE, v |-> x]

IntCcu(n) == [k |-> "int", v |-> n]

NoneCcu == [k |-> "none", v |-> 0]

TextCcu == [k |-> "text", v |-> 0]

NoId == 0

Header == [kind |-> "header", ts |-> 0, appid |-> 0, ccu |-> 0]

LegacyHeader == [kind |-> "legacy", ts |-> 0, appid |-> 0, ccu |-> 0]

ForeignHeader == [kind |-> "foreign", ts |-> 0, appid |-> 0, ccu |-> 0]

Row(t, a, c) == [kind |-> "data", ts |-> t, appid |-> a, ccu |-> c]

OldRow(t) == [kind |-> "old", ts |-> t, appid |-> 0, ccu |-> 0]

ZeroPct == <<0, 1>>

(***************************************************************************)
(* v2.0: append_history_rows.                                              *)
(***************************************************************************)
\* "timestamp_utc" in header
HasTimestampColumn(header) == header.kind \in {"header", "foreign"}

\* the sheet reset on every run, whatever its header
EnsureHeaderReset(values) == <<Header>>

EnsureHeader(values) ==
    IF values = <<>> THEN <<Header>>
    ELSE IF ~HasTimestampColumn(values[1]) THEN <<Header>>
    ELSE values

\* the loop left at the first malformed row instead of skipping it
RECURSIVE RowsToAppendBreak(_, _)
RowsToAppendBreak(rows, now_utc) ==
    IF rows = <<>> THEN <<>>
    ELSE LET row == Head(rows)
         IN  IF row.appid = NoId \/ row.ccu.k # "int" THEN <<>>
             ELSE <<Row(now_utc, row.appid, row.ccu.v)>>
                      \o RowsToAppendBreak(Tail(rows), now_utc)

RECURSIVE RowsToAppend(_, _)
RowsToAppend(rows, now_utc) ==
    IF rows = <<>> THEN <<>>
    ELSE LET row == Head(rows)
             rest == RowsToAppend(Tail(rows), now_utc)
         IN  IF row.appid = NoId \/ row.ccu.k = "none" THEN rest
             ELSE IF row.ccu.k # "int" THEN rest
             ELSE <<Row(now_utc, row.appid, row.ccu.v)>> \o rest

PreTrim(values, rows, now_utc) ==
    EnsureHeader(values) \o RowsToAppend(rows, now_utc)

ParsesAsTimestamp(r) == r.kind \in {"data", "old"}

\* the cutoff compared with > instead of >=
TrimKeepStrict(values, t) ==
    <<values[1]>> \o
    SelectSeq(Tail(values),
              LAMBDA r : ~ParsesAsTimestamp(r) \/ r.ts > t - RETENTION_DAYS)

\* a retention shorter than the trend window
TrimKeepShort(values, t) ==
    <<values[1]>> \o
    SelectSeq(Tail(values),
              LAMBDA r : ~ParsesAsTimestamp(r) \/ r.ts >= t - (WINDOW_3D - 1))

TrimKeep(values, t) ==
    <<values[1]>> \o
    SelectSeq(Tail(values),
              LAMBDA r : ~ParsesAsTimestamp(r) \/ r.ts >= t - RETENTION_DAYS)

\* the rewrite done when nothing was dropped instead of when something was
TrimWritesInverted(values, t) ==
    /\ Len(values) > 1
    /\ HasTimestampColumn(values[1])
    /\ Len(TrimKeep(values, t)) = Len(values)

TrimWrites(values, t) ==
    /\ Len(values) > 1
    /\ HasTimestampColumn(values[1])
    /\ Len(TrimKeep(values, t)) # Len(values)

Trim(values, t) ==
    IF TrimWrites(values, t) THEN TrimKeep(values, t) ELSE values

AppendHistoryRows(values, rows, t) ==
    IF rows = <<>> THEN values ELSE Trim(PreTrim(values, rows, t), t)

(***************************************************************************)
(* v2.0: compute_3d_trends_from_history.                                   *)
(***************************************************************************)
RECURSIVE InsertByTs(_, _)
InsertByTs(s, x) ==
    IF s = <<>> THEN <<x>>
    ELSE IF Head(s).ts <= x.ts THEN <<Head(s)>> \o InsertByTs(Tail(s), x)
    ELSE <<x>> \o s

\* the history left in sheet order
SortByTsNone(s) == s

RECURSIVE SortByTs(_)
SortByTs(s) ==
    IF s = <<>> THEN <<>>
    ELSE InsertByTs(SortByTs(SubSeq(s, 1, Len(s) - 1)), s[Len(s)])

\* the window bound taken as exclusive
PerAppStrict(values, key, cutoff) ==
    SelectSeq(Tail(values),
              LAMBDA r : ParsesAsTimestamp(r) /\ r.ts > cutoff /\ r.appid = key)

PerApp(values, key, cutoff) ==
    SelectSeq(Tail(values),
              LAMBDA r : ParsesAsTimestamp(r) /\ r.ts >= cutoff /\ r.appid = key)

\* the guard for a short history taken as "no sample" instead of "fewer than two"
Trend3dGuardOne(hist) ==
    IF Len(hist) < 1
    THEN [ccu_3d_ago |-> None, pct_change_3d |-> ZeroPct]
    ELSE LET h == SortByTs(hist)
             oldest_ccu == h[1].ccu
             latest_ccu == h[Len(h)].ccu
             pct == IF oldest_ccu <= 0 THEN ZeroPct
                    ELSE <<(latest_ccu - oldest_ccu) * 100, oldest_ccu>>
         IN  [ccu_3d_ago |-> Some(oldest_ccu), pct_change_3d |-> pct]

Trend3d(hist) ==
    IF Len(hist) < 2
    THEN [ccu_3d_ago |-> None, pct_change_3d |-> ZeroPct]
    ELSE LET h == SortByTs(hist)
             oldest_ccu == h[1].ccu
             latest_ccu == h[Len(h)].ccu
             pct == IF oldest_ccu <= 0 THEN ZeroPct
                    ELSE <<(latest_ccu - oldest_ccu) * 100, oldest_ccu>>
         IN  [ccu_3d_ago |-> Some(oldest_ccu), pct_change_3d |-> pct]

ReadWindow(values, key, since) == SortByTs(PerApp(values, key, since))

\* header.index("appid") and its like raise ValueError on a header without the column
ComputeRaises(values, appids) ==
    /\ appids # <<>>
    /\ Len(values) > 1
    /\ values[1].kind # "header"

Compute3dTrends(values, appids, t) ==
    IF appids = <<>> THEN <<>>
    ELSE IF Len(values) <= 1 THEN <<>>
    ELSE [a \in {appids[i] : i \in 1..Len(appids)} |->
              Trend3d(PerApp(values, a, t - WINDOW_3D))]

(***************************************************************************)
(* v2.0: main, steps 3 to 5.                                               *)
(***************************************************************************)
TrendRowsV2(rows, trends_3d) ==
    [i \in 1..Len(rows) |->
        LET t3 == IF rows[i].appid \in DOMAIN trends_3d
                  THEN trends_3d[rows[i].appid]
                  ELSE [ccu_3d_ago |-> None, pct_change_3d |-> ZeroPct]
        IN  [appid |-> rows[i].appid, ccu |-> rows[i].ccu,
             oldest |-> t3.ccu_3d_ago, pct |-> t3.pct_change_3d]]

CcuOrZero(ccu) == IF ccu.k = "int" THEN ccu.v ELSE 0

PctGE(pct, min_pct) == pct[1] >= min_pct * pct[2]

WatchRowsV2(trs, min_ccu, min_pct) ==
    SelectSeq(trs, LAMBDA tr : CcuOrZero(tr.ccu) >= min_ccu /\ PctGE(tr.pct, min_pct))

(***************************************************************************)
(* v1.8.3: compute_7d_trends.                                              *)
(***************************************************************************)
RECURSIVE InsertByDate(_, _)
InsertByDate(s, x) ==
    IF s = <<>> THEN <<x>>
    ELSE IF Head(s).date <= x.date THEN <<Head(s)>> \o InsertByDate(Tail(s), x)
    ELSE <<x>> \o s

RECURSIVE SortByDate(_)
SortByDate(s) ==
    IF s = <<>> THEN <<>>
    ELSE InsertByDate(SortByDate(SubSeq(s, 1, Len(s) - 1)), s[Len(s)])

RECURSIVE FirstSeen(_)
FirstSeen(s) ==
    IF s = <<>> THEN <<>>
    ELSE LET front == FirstSeen(SubSeq(s, 1, Len(s) - 1))
             aid == s[Len(s)].appid
         IN  IF \E i \in 1..Len(front) : front[i] = aid THEN front
             ELSE Append(front, aid)

Window7d(log_rows, aid, cutoff) ==
    SelectSeq(SortByDate(SelectSeq(log_rows, LAMBDA r : r.appid = aid)),
              LAMBDA r : r.date >= cutoff)

\* round(num / den, 2) in hundredths, den > 0, ties to even
Round2(num, den) ==
    LET n == num * 100
        q == n \div den
        r == n % den
    IN  IF 2 * r < den THEN q
        ELSE IF 2 * r > den THEN q + 1
        ELSE IF q % 2 = 0 THEN q ELSE q + 1

Pct7d(ccu_l, ccu_e) ==
    IF ccu_e > 0 THEN Round2((ccu_l - ccu_e) * 100, ccu_e)
    ELSE IF ccu_l > 0 THEN 10000 ELSE 0

Trend7d(aid, window) ==
    LET latest == window[Len(window)]
        earliest == window[1]
    IN  [appid |-> aid,
         ccu_latest |-> latest.ccu_now,
         ccu_pct_change_7d |-> Pct7d(latest.ccu_now, earliest.ccu_now),
         days_in_window |-> Len(window)]

TrendKeyGE(a, b) ==
    \/ a.ccu_pct_change_7d > b.ccu_pct_change_7d
    \/ /\ a.ccu_pct_change_7d = b.ccu_pct_change_7d
       /\ a.ccu_latest >= b.ccu_latest

RECURSIVE InsertTrend(_, _)
InsertTrend(s, x) ==
    IF s = <<>> THEN <<x>>
    ELSE IF TrendKeyGE(Head(s), x) THEN <<Head(s)>> \o InsertTrend(Tail(s), x)
    ELSE <<x>> \o s

RECURSIVE SortTrends(_)
SortTrends(s) ==
    IF s = <<>> THEN <<>>
    ELSE InsertTrend(SortTrends(SubSeq(s, 1, Len(s) - 1)), s[Len(s)])

RECURSIVE TrendsOf(_, _, _)
TrendsOf(aids, log_rows, cutoff) ==
    IF aids = <<>> THEN <<>>
    ELSE LET window == Window7d(log_rows, Head(aids), cutoff)
             rest == TrendsOf(Tail(aids), log_rows, cutoff)
         IN  IF window = <<>> THEN rest
             ELSE <<Trend7d(Head(aids), window)>> \o rest

Compute7dTrends(log_rows, t) ==
    SortTrends(TrendsOf(FirstSeen(log_rows), log_rows, t - WINDOW_7D))

(***************************************************************************)
(* v1.8.3: build_watchlist.                                                *)
(***************************************************************************)
FullWindow(r) == r.days_in_window >= 2

WatchKeyGE(a, b) ==
    \/ FullWindow(a) /\ ~FullWindow(b)
    \/ /\ FullWindow(a) = FullWindow(b)
       /\ TrendKeyGE(a, b)

RECURSIVE InsertWatch(_, _)
InsertWatch(s, x) ==
    IF s = <<>> THEN <<x>>
    ELSE IF WatchKeyGE(Head(s), x) THEN <<Head(s)>> \o InsertWatch(Tail(s), x)
    ELSE <<x>> \o s

RECURSIVE SortWatch(_)
SortWatch(s) ==
    IF s = <<>> THEN <<>>
    ELSE InsertWatch(SortWatch(SubSeq(s, 1, Len(s) - 1)), s[Len(s)])

\* the benefit of the doubt for a short history forgotten
SelectedByPctOnly(t, min_ccu, min_pct, require_history) ==
    /\ ~(t.ccu_latest < min_ccu)
    /\ IF require_history
       THEN t.days_in_window >= 2 /\ t.ccu_pct_change_7d >= min_pct * 100
       ELSE t.ccu_pct_change_7d >= min_pct * 100

Selected(t, min_ccu, min_pct, require_history) ==
    /\ ~(t.ccu_latest < min_ccu)
    /\ IF require_history
       THEN t.days_in_window >= 2 /\ t.ccu_pct_change_7d >= min_pct * 100
       ELSE t.days_in_window < 2 \/ t.ccu_pct_change_7d >= min_pct * 100

BuildWatchlist(trends, min_ccu, min_pct, require_history) ==
    SortWatch(SelectSeq(trends,
                        LAMBDA t : Selected(t, min_ccu, min_pct, require_history)))

(***************************************************************************)
(* Inputs.                                                                 *)
(***************************************************************************)
InputCcus == {IntCcu(n) : n \in CcuInts} \cup {NoneCcu, TextCcu}

InputRows ==
    [appid : AppIds, ccu : {IntCcu(n) : n \in CcuInts}]
        \cup {[appid |-> NoId, ccu |-> IntCcu(1)],
              [appid |-> 1, ccu |-> NoneCcu],
              [appid |-> 1, ccu |-> TextCcu]}

DistinctIds(rows) ==
    \A i, j \in 1..Len(rows) : rows[i].appid = rows[j].appid => i = j

Batches == {rows \in UNION {[1..n -> InputRows] : n \in 1..MaxBatch} : DistinctIds(rows)}

Args == [min_ccu : MinCcus, min_pct : MinPcts]

ArgsV1 == [min_ccu : MinCcus, min_pct : MinPcts, require_history : BOOLEAN]

DatesV1 == {0, 1, 8}

CcuIntsV1 == {0, 1, 3}

TodayV1(d) ==
    {<<[date |-> d, appid |-> a, ccu_now |-> c]>> : a \in AppIds, c \in CcuIntsV1}
        \cup {<<[date |-> d, appid |-> a, ccu_now |-> c1],
                [date |-> d, appid |-> b, ccu_now |-> c2]>> :
                  a \in AppIds, b \in AppIds, c1 \in CcuIntsV1, c2 \in CcuIntsV1}

(***************************************************************************)
(* The state machine.                                                      *)
(***************************************************************************)
InitialSheets ==
    {<<>>, <<LegacyHeader, LegacyHeader>>, <<ForeignHeader, OldRow(0)>>}

TABS_V2 == {"Today", "7d Trends", "Watchlist"}

TABS_V1 == {"Today", "Watchlist"}

Init ==
    /\ variant \in {"v2.0", "v1.8.3"}
    /\ sheet \in IF variant = "v2.0" THEN InitialSheets ELSE {<<>>}
    /\ pre_trim = <<>>
    /\ log = <<>>
    /\ today_rows = <<>>
    /\ now = 0
    /\ trend_rows = <<>>
    /\ watch_rows = <<>>
    /\ error = "none"
    /\ pushed = {}
    /\ runs = <<>>

MainV2(rows, t) ==
    /\ variant = "v2.0"
    /\ t >= now - MaxSkew
    /\ Len(AppendHistoryRows(sheet, rows, t)) <= MaxRows + 1
    /\ today_rows' = rows
    /\ now' = t
    /\ pre_trim' = PreTrim(sheet, rows, t)
    /\ sheet' = AppendHistoryRows(sheet, rows, t)
    /\ LET appids == [i \in 1..Len(rows) |-> rows[i].appid]
       IN  IF ComputeRaises(sheet', appids)
           THEN /\ error' = "ValueError"
                /\ trend_rows' = <<>>
                /\ watch_rows' = [a \in Args |-> <<>>]
                /\ pushed' = {}
           ELSE /\ error' = "none"
                /\ trend_rows' = TrendRowsV2(rows, Compute3dTrends(sheet', appids, t))
                /\ watch_rows' =
                      [a \in Args |-> WatchRowsV2(trend_rows', a.min_ccu, a.min_pct)]
                /\ pushed' = TABS_V2
    /\ UNCHANGED <<variant, log, runs>>

MainV1(today, t) ==
    /\ variant = "v1.8.3"
    /\ t >= now
    /\ DistinctIds(today)
    /\ Len(log) + Len(today) <= MaxLog
    /\ today_rows' = today
    /\ now' = t
    /\ log' = log \o today
    /\ trend_rows' = Compute7dTrends(log', t)
    /\ watch_rows' = [a \in ArgsV1 |->
           BuildWatchlist(trend_rows', a.min_ccu, a.min_pct, a.require_history)]
    /\ pushed' = TABS_V1
    /\ UNCHANGED <<variant, sheet, pre_trim, error, runs>>

Next ==
    \/ \E rows \in Batches, t \in Times : MainV2(rows, t)
    \/ \E t \in DatesV1 : \E today \in TodayV1(t) : MainV1(today, t)

Spec == Init /\ [][Next]_vars

(***************************************************************************)
(* What the claims speak of, read off the stores directly.                 *)
(***************************************************************************)
IsV2 == variant = "v2.0" /\ today_rows # <<>>

IsV1 == variant = "v1.8.3" /\ today_rows # <<>>

\* positions of the samples of item a inside the 3-day window of the last run
WinIdx(a) ==
    {i \in 2..Len(sheet) : /\ sheet[i].kind = "data"
                           /\ sheet[i].appid = a
                           /\ sheet[i].ts >= now - WINDOW_3D}

OldestIdx(a) ==
    CHOOSE i \in WinIdx(a) : \A j \in WinIdx(a) :
        sheet[i].ts < sheet[j].ts \/ (sheet[i].ts = sheet[j].ts /\ i <= j)

LatestIdx(a) ==
    CHOOSE i \in WinIdx(a) : \A j \in WinIdx(a) :
        sheet[i].ts > sheet[j].ts \/ (sheet[i].ts = sheet[j].ts /\ i >= j)

\* the same for the 7-day window over the CSV log
WinIdxV1(a) ==
    {i \in 1..Len(log) : log[i].appid = a /\ log[i].date >= now - WINDOW_7D}

OldestIdxV1(a) ==
    CHOOSE i \in WinIdxV1(a) : \A j \in WinIdxV1(a) :
        log[i].date < log[j].date \/ (log[i].date = log[j].date /\ i <= j)

LatestIdxV1(a) ==
    CHOOSE i \in WinIdxV1(a) : \A j \in WinIdxV1(a) :
        log[i].date > log[j].date \/ (log[i].date = log[j].date /\ i >= j)

(***************************************************************************)
(* C1.  Zero-baseline guard: an item whose oldest sample in the window is  *)
(* 0 and whose latest sample in the window is above 0 gets pct_change 0,   *)
(* from compute_3d_trends_from_history and from compute_7d_trends alike.   *)
(***************************************************************************)
C1_ZeroBaselineGivesZero ==
    /\ IsV2 =>
         \A k \in DOMAIN trend_rows :
            LET a == trend_rows[k].appid
            IN  (/\ Cardinality(WinIdx(a)) >= 2
                 /\ sheet[OldestIdx(a)].ccu = 0
                 /\ sheet[LatestIdx(a)].ccu > 0)
                    => trend_rows[k].pct[1] = 0
    /\ IsV1 =>
         \A k \in DOMAIN trend_rows :
            LET a == trend_rows[k].appid
            IN  (/\ Cardinality(WinIdxV1(a)) >= 2
                 /\ log[OldestIdxV1(a)].ccu_now = 0
                 /\ log[LatestIdxV1(a)].ccu_now > 0)
                    => trend_rows[k].ccu_pct_change_7d = 0

WellFormed(r) == r.appid # NoId /\ r.ccu.k = "int"

InWatch(a, r) == \E j \in DOMAIN watch_rows[a] : watch_rows[a][j] = r

PosInTrends(r) == CHOOSE k \in DOMAIN trend_rows : trend_rows[k] = r

FullV2(r) == Cardinality(WinIdx(r.appid)) >= 2

FullV1(r) == Cardinality(WinIdxV1(r.appid)) >= 2

\* exact comparison of two v2.0 percentages (positive denominators)
PctLess(p, q) == p[1] * q[2] < q[1] * p[2]

\* r must come before s: full window first, then pct_change, then latest value
BeforeV2(r, s) ==
    \/ FullV2(r) /\ ~FullV2(s)
    \/ /\ FullV2(r) = FullV2(s)
       /\ \/ PctLess(s.pct, r.pct)
          \/ /\ ~PctLess(r.pct, s.pct)
             /\ CcuOrZero(r.ccu) > CcuOrZero(s.ccu)

SameKeyV2(r, s) == ~BeforeV2(r, s) /\ ~BeforeV2(s, r)

BeforeV1(r, s) ==
    \/ FullV1(r) /\ ~FullV1(s)
    \/ /\ FullV1(r) = FullV1(s)
       /\ \/ r.ccu_pct_change_7d > s.ccu_pct_change_7d
          \/ /\ r.ccu_pct_change_7d = s.ccu_pct_change_7d
             /\ r.ccu_latest > s.ccu_latest

SameKeyV1(r, s) == ~BeforeV1(r, s) /\ ~BeforeV1(s, r)

(***************************************************************************)
(* C3.  With require_full_window an item is on the watchlist exactly when  *)
(* its latest value reaches min_metric, it has at least two samples in the *)
(* window and its pct_change reaches min_pct, for every min_pct, also      *)
(* min_pct <= 0.  build_watchlist is run with require_history; the         *)
(* selection of v2.0's main has no switch and is the variant that leaves   *)
(* items without a full window out by default.                             *)
(***************************************************************************)
C3_FullWindowRule ==
    /\ IsV1 =>
         \A a \in ArgsV1 : \A k \in DOMAIN trend_rows :
            a.require_history =>
               (InWatch(a, trend_rows[k]) <=>
                   /\ trend_rows[k].ccu_latest >= a.min_ccu
                   /\ FullV1(trend_rows[k])
                   /\ trend_rows[k].ccu_pct_change_7d >= a.min_pct * 100)
    /\ IsV2 =>
         \A a \in Args : \A k \in DOMAIN trend_rows :
            WellFormed(trend_rows[k]) =>
              (InWatch(a, trend_rows[k]) <=>
               /\ CcuOrZero(trend_rows[k].ccu) >= a.min_ccu
               /\ FullV2(trend_rows[k])
               /\ PctGE(trend_rows[k].pct, a.min_pct))

(***************************************************************************)
(* C4.  Without require_full_window an item is on the watchlist exactly    *)
(* when its latest value reaches min_metric and it either has fewer than   *)
(* two samples in the window or its pct_change reaches min_pct; an item    *)
(* with one sample and a sufficient latest value is always selected.       *)
(***************************************************************************)
C4_BenefitOfDoubtRule ==
    IsV1 =>
       \A a \in ArgsV1 : \A k \in DOMAIN trend_rows :
          ~a.require_history =>
             /\ InWatch(a, trend_rows[k]) <=>
                   /\ trend_rows[k].ccu_latest >= a.min_ccu
                   /\ \/ ~FullV1(trend_rows[k])
                      \/ trend_rows[k].ccu_pct_change_7d >= a.min_pct * 100
             /\ (/\ Cardinality(WinIdxV1(trend_rows[k].appid)) = 1
                 /\ trend_rows[k].ccu_latest >= a.min_ccu)
                    => InWatch(a, trend_rows[k])

C4_Witness ==
    /\ IsV1
    /\ \E a \in ArgsV1 : \E k \in DOMAIN trend_rows :
          /\ ~a.require_history
          /\ Cardinality(WinIdxV1(trend_rows[k].appid)) = 1
          /\ trend_rows[k].ccu_pct_change_7d < a.min_pct * 100
          /\ InWatch(a, trend_rows[k])

(***************************************************************************)
(* C5.  The watchlist is ordered: items with a full window first, then by  *)
(* pct_change descending, then by latest value descending, and items equal *)
(* on all three keep the order of the trend rows.                          *)
(***************************************************************************)
C5_WatchlistOrdered ==
    /\ IsV1 =>
         \A a \in ArgsV1 : \A i, j \in DOMAIN watch_rows[a] :
            i < j =>
               /\ ~BeforeV1(watch_rows[a][j], watch_rows[a][i])
               /\ SameKeyV1(watch_rows[a][i], watch_rows[a][j])
                     => PosInTrends(watch_rows[a][i]) < PosInTrends(watch_rows[a][j])
    /\ IsV2 =>
         \A a \in Args : \A i, j \in DOMAIN watch_rows[a] :
            (i < j /\ WellFormed(watch_rows[a][i]) /\ WellFormed(watch_rows[a][j])) =>
               /\ ~BeforeV2(watch_rows[a][j], watch_rows[a][i])
               /\ SameKeyV2(watch_rows[a][i], watch_rows[a][j])
                     => PosInTrends(watch_rows[a][i]) < PosInTrends(watch_rows[a][j])

(***************************************************************************)
(* C6.  After the trim step of append_history_rows, with the cutoff eight  *)
(* days before now, the store holds the header and exactly the samples     *)
(* that were at or after the cutoff before the trim, unaltered and in the  *)
(* same order.                                                             *)
(***************************************************************************)
KeepIdx == {i \in 2..Len(pre_trim) : pre_trim[i].ts >= now - RETENTION_DAYS}

C6_TrimPostcondition ==
    IsV2 =>
       /\ HasTimestampColumn(sheet[1])
       /\ sheet[1] = pre_trim[1]
       /\ Len(sheet) = 1 + Cardinality(KeepIdx)
       /\ \A i \in KeepIdx :
             sheet[1 + Cardinality({j \in KeepIdx : j <= i})] = pre_trim[i]

C6_Witness ==
    /\ IsV2
    /\ Len(sheet) < Len(pre_trim)
    /\ Len(sheet) >= 3
    /\ \E i \in 2..Len(sheet) : sheet[i].ts = now - RETENTION_DAYS

(***************************************************************************)
(* C7.  Trimming again with the same cutoff and nothing appended in        *)
(* between changes nothing and writes nothing; trimming a store that holds *)
(* no sample does nothing.                                                 *)
(***************************************************************************)
C7_TrimIdempotent ==
    IsV2 =>
       /\ Trim(sheet, now) = sheet
       /\ ~TrimWrites(sheet, now)
       /\ Trim(<<Header>>, now) = <<Header>>
       /\ ~TrimWrites(<<Header>>, now)
       /\ ~TrimWrites(<<>>, now)

C7_Witness ==
    /\ IsV2
    /\ Len(sheet) < Len(pre_trim)
    /\ Len(sheet) > 1

(***************************************************************************)
(* C8.  Reading an item over an unbounded window returns exactly the       *)
(* samples of that item that the store holds, in ascending timestamp       *)
(* order, whatever the order in which the samples were inserted.           *)
(***************************************************************************)
EarliestTime == CHOOSE t \in Times : \A u \in Times : t <= u

Orders == {f \in [1..(Len(sheet) - 1) -> 1..(Len(sheet) - 1)] :
              \A i, j \in DOMAIN f : f[i] = f[j] => i = j}

\* the store had its samples been inserted in the order f
Inserted(f) == <<sheet[1]>> \o [i \in 1..(Len(sheet) - 1) |-> sheet[1 + f[i]]]

Occurrences(s, x) == Cardinality({i \in DOMAIN s : s[i] = x})

SamplesOf(a) == {i \in 2..Len(sheet) : sheet[i].kind = "data" /\ sheet[i].appid = a}

ExactlyTheSamplesOf(r, a) ==
    /\ Len(r) = Cardinality(SamplesOf(a))
    /\ \A i \in SamplesOf(a) :
          Occurrences(r, sheet[i]) = Cardinality({j \in SamplesOf(a) : sheet[j] = sheet[i]})

Ascending(r) == \A i, j \in DOMAIN r : i < j => r[i].ts <= r[j].ts

DistinctTimestamps(a) ==
    \A i, j \in SamplesOf(a) : sheet[i].ts = sheet[j].ts => i = j

\* the original statement: the same sequence for every insertion order
C8_RoundTripAnyOrder ==
    IsV2 =>
       \A a \in AppIds : \A f \in Orders :
          LET r == ReadWindow(Inserted(f), a, EarliestTime)
          IN  /\ ExactlyTheSamplesOf(r, a)
              /\ Ascending(r)
              /\ r = ReadWindow(sheet, a, EarliestTime)

\* amended: the same sequence when the item's timestamps are distinct;
\* samples with equal timestamps come out in insertion order
C8_RoundTripUpToTies ==
    IsV2 =>
       \A a \in AppIds : \A f \in Orders :
          LET r == ReadWindow(Inserted(f), a, EarliestTime)
          IN  /\ ExactlyTheSamplesOf(r, a)
              /\ Ascending(r)
              /\ DistinctTimestamps(a) => r = ReadWindow(sheet, a, EarliestTime)
              /\ \A t \in Times :
                    SelectSeq(r, LAMBDA x : x.ts = t)
                       = SelectSeq(Tail(Inserted(f)),
                                   LAMBDA x : x.appid = a /\ x.ts = t)

C8_Witness ==
    /\ IsV2
    /\ \E a \in AppIds : \E i, j \in SamplesOf(a) : i < j /\ sheet[i].ts > sheet[j].ts

(***************************************************************************)
(* C9.  A negative player count is rejected at ingestion: the History      *)
(* store never holds a row with a negative current_players value.          *)
(***************************************************************************)
C9_NoNegativeStored ==
    \A i \in DOMAIN sheet : sheet[i].kind = "data" => sheet[i].ccu >= 0

(***************************************************************************)
(* C10.  A malformed row does not stop the ingestion of the batch: the     *)
(* rows with a missing id or a non-numeric count are left out, and every   *)
(* other row of the batch is appended once, in batch order, all with the   *)
(* timestamp of the run.                                                   *)
(***************************************************************************)
GoodIdx(rows) == {i \in DOMAIN rows : rows[i].appid # NoId /\ rows[i].ccu.k = "int"}

NthGood(rows, n) ==
    CHOOSE i \in GoodIdx(rows) : Cardinality({j \in GoodIdx(rows) : j <= i}) = n

Ingested(rows, t) ==
    [n \in 1..Cardinality(GoodIdx(rows)) |->
        Row(t, rows[NthGood(rows, n)].appid, rows[NthGood(rows, n)].ccu.v)]

C10_MalformedRowsSkipped ==
    [][IsV2' => pre_trim' = EnsureHeader(sheet) \o Ingested(today_rows', now')]_vars

C10_Witness ==
    /\ IsV2
    /\ Len(today_rows) = 2
    /\ GoodIdx(today_rows) = {2}
    /\ Len(sheet) >= 3
    /\ sheet[Len(sheet)] = Row(now, today_rows[2].appid, today_rows[2].ccu.v)

(***************************************************************************)
(* C11.  Schema-mismatch recovery: a run of append_history_rows that finds *)
(* the History store empty, or non-empty with a header row that is not the *)
(* canonical one, leaves exactly the canonical header followed by the      *)
(* valid samples of the run; no row of another layout survives, and the    *)
(* store the trend computation reads has the canonical header.             *)
(***************************************************************************)
Mismatched(values) == values # <<>> /\ values[1] # Header

C11_SchemaMismatchRecovery ==
    [][variant = "v2.0" =>
          /\ (sheet = <<>> \/ Mismatched(sheet))
                => sheet' = <<Header>> \o Ingested(today_rows', now')
          /\ sheet'[1] = Header
          /\ \A i \in 2..Len(sheet') : sheet'[i].kind = "data"]_vars

(***************************************************************************)
(* C12.  A run that computes trends produces exactly one trend row per     *)
(* item of its batch: every batch item has one, none has two, and no trend *)
(* row belongs to an item that is absent from the batch and known from the *)
(* history of earlier runs only.                                           *)
(***************************************************************************)
TrendRowsOf(a) == {k \in DOMAIN trend_rows : trend_rows[k].appid = a}

InBatch(a) == \E i \in DOMAIN today_rows : today_rows[i].appid = a

C12_OneTrendRowPerBatchItem ==
    ((IsV2 /\ error = "none") \/ IsV1) =>
       /\ \A i \in DOMAIN today_rows :
             Cardinality(TrendRowsOf(today_rows[i].appid)) = 1
       /\ \A k \in DOMAIN trend_rows : InBatch(trend_rows[k].appid)

(***************************************************************************)
(* The same runs, one step per storage call.  Two runs work on the same    *)
(* History worksheet (v2.0) or the same CSV log (v1.8.3); runs[p] holds    *)
(* the position of run p and its local variables.  A storage call of the   *)
(* history step or of the trend step of v2.0 may fail; main has no handler *)
(* around them, so the exception ends the run.  The three tab pushes of a  *)
(* run are one step.                                                       *)
(***************************************************************************)
Procs == {1, 2}

CallTimes == {1, 9}

CallBatches ==
    {<<[appid |-> 1, ccu |-> IntCcu(2)]>>,
     <<[appid |-> 2, ccu |-> IntCcu(1)], [appid |-> 1, ccu |-> TextCcu]>>}

CallSheets ==
    {<<>>,
     <<LegacyHeader, LegacyHeader>>,
     <<Header, Row(0, 1, 1)>>,
     <<Header, Row(0, 1, 1), Row(1, 1, 2)>>}

CallLogs == {<<>>, <<[date |-> 0, appid |-> 1, ccu_now |-> 1]>>}

CallTodays == {<<[date |-> 0, appid |-> a, ccu_now |-> 1]>> : a \in AppIds}

Idle ==
    [pc |-> "idle", rows |-> <<>>, t |-> 0, keep |-> <<>>, merged |-> <<>>,
     trends |-> <<>>, pushed |-> {}, failed |-> FALSE]

\* the positions at which the next call is one on the History worksheet
HistoryPcs ==
    {"get_all_values", "clear_legacy", "append_header", "append_rows",
     "get_values_for_trim", "trim_clear", "trim_rewrite", "compute"}

\* where a run goes when a storage call raises: the exception leaves main
FailTargetSwallowed(pc) == "push"

FailTarget(pc) == "failed"

InitCalls ==
    /\ variant \in {"v2.0", "v1.8.3"}
    /\ sheet \in IF variant = "v2.0" THEN CallSheets ELSE {<<>>}
    /\ log \in IF variant = "v1.8.3" THEN CallLogs ELSE {<<>>}
    /\ runs = [p \in Procs |-> Idle]
    /\ pre_trim = <<>>
    /\ today_rows = <<>>
    /\ now = 0
    /\ trend_rows = <<>>
    /\ watch_rows = <<>>
    /\ error = "none"
    /\ pushed = {}

Others == <<variant, pre_trim, today_rows, now, trend_rows, watch_rows, error, pushed>>

StartV2(p, rows, t) ==
    /\ variant = "v2.0"
    /\ runs[p].pc = "idle"
    /\ runs' = [runs EXCEPT ![p].pc = "get_all_values", ![p].rows = rows, ![p].t = t]
    /\ UNCHANGED <<sheet, log, Others>>

GetAllValues(p) ==
    /\ runs[p].pc = "get_all_values"
    /\ runs' = [runs EXCEPT ![p].pc =
           IF sheet = <<>> THEN "append_header"
           ELSE IF ~HasTimestampColumn(sheet[1]) THEN "clear_legacy"
           ELSE "append_rows"]
    /\ UNCHANGED <<sheet, log, Others>>

ClearLegacy(p) ==
    /\ runs[p].pc = "clear_legacy"
    /\ sheet' = <<>>
    /\ runs' = [runs EXCEPT ![p].pc = "append_header"]
    /\ UNCHANGED <<log, Others>>

AppendHeaderRow(p) ==
    /\ runs[p].pc = "append_header"
    /\ sheet' = Append(sheet, Header)
    /\ runs' = [runs EXCEPT ![p].pc = "append_rows"]
    /\ UNCHANGED <<log, Others>>

AppendRows(p) ==
    /\ runs[p].pc = "append_rows"
    /\ sheet' = sheet \o RowsToAppend(runs[p].rows, runs[p].t)
    /\ runs' = [runs EXCEPT ![p].pc = "get_values_for_trim"]
    /\ UNCHANGED <<log, Others>>

GetValuesForTrim(p) ==
    /\ runs[p].pc = "get_values_for_trim"
    /\ runs' = IF TrimWrites(sheet, runs[p].t)
               THEN [runs EXCEPT ![p].pc = "trim_clear",
                                 ![p].keep = TrimKeep(sheet, runs[p].t)]
               ELSE [runs EXCEPT ![p].pc = "compute"]
    /\ UNCHANGED <<sheet, log, Others>>

TrimClear(p) ==
    /\ runs[p].pc = "trim_clear"
    /\ sheet' = <<>>
    /\ runs' = [runs EXCEPT ![p].pc = "trim_rewrite"]
    /\ UNCHANGED <<log, Others>>

TrimRewrite(p) ==
    /\ runs[p].pc = "trim_rewrite"
    /\ sheet' = sheet \o runs[p].keep
    /\ runs' = [runs EXCEPT ![p].pc = "compute"]
    /\ UNCHANGED <<log, Others>>

ComputeTrends(p) ==
    /\ runs[p].pc = "compute"
    /\ LET appids == [i \in 1..Len(runs[p].rows) |-> runs[p].rows[i].appid]
       IN  runs' = IF ComputeRaises(sheet, appids)
                   THEN [runs EXCEPT ![p].pc = "failed"]
                   ELSE [runs EXCEPT ![p].pc = "push",
                                     ![p].trends = TrendRowsV2(runs[p].rows,
                                         Compute3dTrends(sheet, appids, runs[p].t))]
    /\ UNCHANGED <<sheet, log, Others>>

PushTabs(p) ==
    /\ runs[p].pc = "push"
    /\ runs' = [runs EXCEPT ![p].pc = "done", ![p].pushed = TABS_V2]
    /\ UNCHANGED <<sheet, log, Others>>

StorageFails(p) ==
    /\ runs[p].pc \in HistoryPcs
    /\ runs' = [runs EXCEPT ![p].pc = FailTarget(runs[p].pc), ![p].failed = TRUE]
    /\ UNCHANGED <<sheet, log, Others>>

StartV1(p, today) ==
    /\ variant = "v1.8.3"
    /\ runs[p].pc = "idle"
    /\ runs' = [runs EXCEPT ![p].pc = "load_csv", ![p].rows = today]
    /\ UNCHANGED <<sheet, log, Others>>

LoadLog(p) ==
    /\ runs[p].pc = "load_csv"
    /\ runs' = [runs EXCEPT ![p].pc = "save_csv", ![p].merged = log \o runs[p].rows]
    /\ UNCHANGED <<sheet, log, Others>>

SaveLog(p) ==
    /\ runs[p].pc = "save_csv"
    /\ log' = runs[p].merged
    /\ runs' = [runs EXCEPT ![p].pc = "trends"]
    /\ UNCHANGED <<sheet, Others>>

FinishV1(p) ==
    /\ runs[p].pc = "trends"
    /\ runs' = [runs EXCEPT ![p].pc = "done",
                            ![p].trends = Compute7dTrends(runs[p].merged, runs[p].t),
                            ![p].pushed = TABS_V1]
    /\ UNCHANGED <<sheet, log, Others>>

NextCalls ==
    \E p \in Procs :
       \/ \E rows \in CallBatches, t \in CallTimes : StartV2(p, rows, t)
       \/ GetAllValues(p)
       \/ ClearLegacy(p)
       \/ AppendHeaderRow(p)
       \/ AppendRows(p)
       \/ GetValuesForTrim(p)
       \/ TrimClear(p)
       \/ TrimRewrite(p)
       \/ ComputeTrends(p)
       \/ PushTabs(p)
       \/ StorageFails(p)
       \/ \E today \in CallTodays : StartV1(p, today)
       \/ LoadLog(p)
       \/ SaveLog(p)
       \/ FinishV1(p)

SpecCalls == InitCalls /\ [][NextCalls]_vars

(***************************************************************************)
(* C13.  While a run is alone on the store and its trim has found at least *)
(* one sample at or after the cutoff, the store holds a sample: after the  *)
(* trim, and in every state between the storage calls of the trim (clear,  *)
(* then rewrite).                                                          *)
(***************************************************************************)
Alone(p) == \A q \in Procs \ {p} : runs[q].pc = "idle"

KeepsASample(p) ==
    \E i \in 2..Len(runs[p].keep) :
       /\ runs[p].keep[i].kind = "data"
       /\ runs[p].keep[i].ts >= runs[p].t - RETENTION_DAYS

HoldsASample(values) == \E i \in DOMAIN values : values[i].kind = "data"

C13_TrimNeverEmptiesStore ==
    \A p \in Procs :
       (/\ Alone(p)
        /\ runs[p].pc \in {"trim_clear", "trim_rewrite", "compute", "push", "done"}
        /\ KeepsASample(p))
          => HoldsASample(sheet)

(***************************************************************************)
(* C14.  Over serialized runs a stored sample stays in the store, with its *)
(* timestamp, item and value unchanged and in its place among the samples, *)
(* through every run whose trim cutoff is not later than its timestamp:    *)
(* the header check, the append and the trend computation remove nothing.  *)
(* The CSV log of v1.8.3 is never trimmed and only grows at its end.       *)
(***************************************************************************)
SamplesIn(values) == SelectSeq(values, LAMBDA r : r.kind = "data")

Surviving(values, t) ==
    SelectSeq(values, LAMBDA r : r.kind = "data" /\ r.ts >= t - RETENTION_DAYS)

IsPrefix(s, r) == Len(s) <= Len(r) /\ s = SubSeq(r, 1, Len(s))

BothDone == \A p, q \in Procs : runs[p].pc = "done" /\ runs[p].t = runs[q].t

Holds(values, r) == \E i \in DOMAIN values : values[i] = r

AppendedBy(p) == RowsToAppend(runs[p].rows, runs[p].t)

WithinRetention(r) == \A q \in Procs : r.ts >= runs[q].t - RETENTION_DAYS

C15_InterleavedRunsKeepSamples ==
    BothDone =>
       /\ variant = "v2.0" =>
             /\ sheet # <<>>
             /\ sheet[1] = Header
             /\ \A p \in Procs : \A i \in DOMAIN AppendedBy(p) :
                   WithinRetention(AppendedBy(p)[i]) => Holds(sheet, AppendedBy(p)[i])
       /\ variant = "v1.8.3" =>
             \A p \in Procs : \A i \in DOMAIN runs[p].rows : Holds(log, runs[p].rows[i])

(***************************************************************************)
(* C16.  An item with at least two samples in the window and an oldest     *)
(* value above 0 gets oldest_value = oldest and pct_change = (latest -     *)
(* oldest) / oldest * 100, oldest and latest being the values of the       *)
(* samples with the smallest and the largest timestamp among those stamped *)
(* at or after now - window; a sample stamped exactly now - window counts. *)
(* compute_7d_trends rounds its output: there the value is that quotient   *)
(* to two decimals (a trend row of v1.8.3 has no oldest-value field).      *)
(***************************************************************************)
Abs(x) == IF x < 0 THEN -x ELSE x

C16_PctChangeOverInclusiveWindow ==
    /\ (IsV2 /\ error = "none") =>
         \A k \in DOMAIN trend_rows :
            LET a == trend_rows[k].appid
                oldest == sheet[OldestIdx(a)].ccu
                latest == sheet[LatestIdx(a)].ccu
            IN  (Cardinality(WinIdx(a)) >= 2 /\ oldest > 0) =>
                   /\ trend_rows[k].oldest = Some(oldest)
                   /\ trend_rows[k].pct[2] > 0
                   /\ trend_rows[k].pct[1] * oldest
                         = (latest - oldest) * 100 * trend_rows[k].pct[2]
    /\ IsV1 =>
         \A k \in DOMAIN trend_rows :
            LET a == trend_rows[k].appid
                oldest == log[OldestIdxV1(a)].ccu_now
                latest == log[LatestIdxV1(a)].ccu_now
            IN  (Cardinality(WinIdxV1(a)) >= 2 /\ oldest > 0) =>
                   2 * Abs(trend_rows[k].ccu_pct_change_7d * oldest
                             - (latest - oldest) * 10000) <= oldest

C16_Witness ==
    /\ IsV2
    /\ error = "none"
    /\ \E k \in DOMAIN trend_rows :
          LET a == trend_rows[k].appid
          IN  /\ Cardinality(WinIdx(a)) >= 2
              /\ sheet[OldestIdx(a)].ts = now - WINDOW_3D
              /\ sheet[OldestIdx(a)].ccu = 2
              /\ sheet[LatestIdx(a)].ccu = 1
              /\ trend_rows[k].pct = <<-100, 2>>

(***************************************************************************)
(* C17.  A run in which a storage call of append_history_rows or of        *)
(* compute_3d_trends_from_history has failed is over: it has computed no   *)
(* trend row and has pushed none of the Today, 7d Trends and Watchlist     *)
(* tabs, and it never will.                                                *)
(***************************************************************************)
C17_StorageFailureAborts ==
    \A p \in Procs :
       runs[p].failed =>
          /\ runs[p].pc = "failed"
          /\ runs[p].trends = <<>>
          /\ runs[p].pushed = {}

C17_Witness ==
    \E p \in Procs :
       /\ runs[p].failed
       /\ Alone(p)
       /\ KeepsASample(p)
       /\ sheet = <<>>

(***************************************************************************)
(* C18.  The trim changes no trend: the trend rows computed from the store *)
(* the trim left equal the trend rows computed from the store the trim     *)
(* read, for the clock reading of the run and for every later reading of   *)
(* the same run (up to MaxDrift days on).                                  *)
(***************************************************************************)
TrendRowsFrom(values, t) ==
    TrendRowsV2(today_rows,
                Compute3dTrends(values,
                                [i \in 1..Len(today_rows) |-> today_rows[i].appid], t))

C18_TrimChangesNoTrend ==
    (IsV2 /\ error = "none") =>
       /\ trend_rows = TrendRowsFrom(pre_trim, now)
       /\ \A d \in 0..MaxDrift :
             TrendRowsFrom(sheet, now + d) = TrendRowsFrom(pre_trim, now + d)

C18_Witness ==
    /\ IsV2
    /\ error = "none"
    /\ Len(sheet) < Len(pre_trim)
    /\ \E k \in DOMAIN trend_rows :
          /\ trend_rows[k].oldest # None
          /\ trend_rows[k].pct[1] # 0

====
